---- MODULE Spec2Model ----
(***************************************************************************)
(* RelayConnection (packages/frontend/src/services/relay-connection.ts):   *)
(* the service that owns the phoenix Socket and Channel of the client,     *)
(* its `connected` flag, and the send / connect / subscribeToChannel       *)
(* operations, together with the callbacks it registers on the socket,    *)
(* the channel, the join push and each chat push.                          *)
(*                                                                         *)
(* The phoenix Socket and Channel objects are kept as records in the       *)
(* sequences `sockets` and `channels`; `socket` and `channel` are the      *)
(* service's two fields, holding an index into them (0 = unset).  The      *)
(* events of the library (socket error/close, channel error/close, join    *)
(* and push replies, inbound chat) are steps of the environment; each      *)
(* runs the whole callback the service registered for it.                  *)
(***************************************************************************)
EXTENDS Integers, Sequences, FiniteSets, TLC

VARIABLES
    identity,         \* the identity service: [exists, publicKey]
    socket,           \* this.socket   (0 = undefined, else index in sockets)
    channel,          \* this.channel  (0 = undefined, else index in channels)
    connected,        \* this.connected
    sockets,          \* every Socket constructed so far
    channels,         \* every Channel created so far
    pushes,           \* every 'chat' push issued so far, with its promise
    awaiting,         \* per caller: its connect() call, suspended at `await this.canConnect()`
    pingAllCount,     \* calls of dispatcher.pingAll()
    closedSince,      \* a channel close event arrived and connect() was not called since
    lastOp,           \* the operation or callback that ran last
    lastRet,          \* what the last send() returned
    emitted           \* toasts and console lines of the last operation

vars == <<identity, socket, channel, connected, sockets, channels, pushes,
          awaiting, pingAllCount, closedSince,
          lastOp, lastRet, emitted>>

----------------------------------------------------------------------------
(* Bounds of the model *)

\* the Socket, Channel and Push objects a run creates, all together
MaxObjects == 4

----------------------------------------------------------------------------
(* Inputs *)

\* identity.publicKey: <<>> stands for "no key" (undefined)
NoKey == <<>>
Keys == { <<10, 177>> }

\* the identity service as the service finds it: no identity, an identity
\* that exists() but has no public key, an identity with a public key; it
\* does not change during a run
Identities ==
    { [exists |-> FALSE, publicKey |-> NoKey], [exists |-> TRUE, publicKey |-> NoKey] }
    \cup { [exists |-> TRUE, publicKey |-> k] : k \in Keys }

\* the callers whose connect() calls may overlap
Callers == { "a", "b" }
Peers == { "peer1" }
Messages == { "hello" }

\* payloads of inbound 'chat' events
Inbound == { "hello", "bye" }
Rooms == { "lobby" }

----------------------------------------------------------------------------
(* Helpers *)

HexDigits ==
    <<"0", "1", "2", "3", "4", "5", "6", "7", "8", "9", "a", "b", "c", "d", "e", "f">>

ByteHex(b) == HexDigits[(b \div 16) + 1] \o HexDigits[(b % 16) + 1]

RECURSIVE toHex(_)
toHex(bytes) ==
    IF bytes = <<>> THEN "" ELSE ByteHex(Head(bytes)) \o toHex(Tail(bytes))

\* async canConnect(): await this.identity.exists()
canConnect == identity.exists

\* userChannelId(): '' without a public key, else its hex form
userChannelId ==
    IF identity.publicKey = NoKey THEN "" ELSE toHex(identity.publicKey)

UserChannelName(id) == "user:" \o id

RoomChannelName(room, key) == "room:" \o room \o ",user:" \o toHex(key)

RoomChannelNames == { RoomChannelName(r, k) : r \in Rooms, k \in Keys }

Note(sink, key) == <<sink, key>>

NoReturn == [kind |-> "none", push |-> 0]
Undefined == [kind |-> "undefined", push |-> 0]
PromiseOf(p) == [kind |-> "promise", push |-> p]

Pending == [state |-> "pending", value |-> <<"none", "">>]
OkReply == <<"status", "delivered">>
ErrorReply == <<"reason", "rejected by relay">>
TimeoutReason == <<"reason", "models.message.errors.timeout">>

\* a caller's connect() call: not running, or suspended with the answer of
\* canConnect() on its way, `connected` as it was when the call was made, and
\* whether another call has constructed a socket while this one was suspended
Idle == [pc |-> "idle", can |-> FALSE, connectedAtCall |-> FALSE, overtaken |-> FALSE]
Awaiting(can, conn) ==
    [pc |-> "await", can |-> can, connectedAtCall |-> conn, overtaken |-> FALSE]

\* the suspended calls see caller c finish; `constructed`: c built a socket
Resumed(c, constructed) ==
    [d \in Callers |->
        IF d = c THEN Idle
        ELSE IF constructed /\ awaiting[d].pc = "await"
             THEN [awaiting[d] EXCEPT !.overtaken = TRUE]
             ELSE awaiting[d]]

SocketOpen(s) == s # 0 /\ sockets[s].status = "open"

Created == Len(sockets) + Len(channels) + Len(pushes)

----------------------------------------------------------------------------
Init ==
    /\ identity \in Identities
    /\ socket = 0
    /\ channel = 0
    /\ connected = FALSE
    /\ sockets = <<>>
    /\ channels = <<>>
    /\ pushes = <<>>
    /\ awaiting = [c \in Callers |-> Idle]
    /\ pingAllCount = 0
    /\ closedSince = FALSE
    /\ lastOp = "init"
    /\ lastRet = NoReturn
    /\ emitted = {}

----------------------------------------------------------------------------
(* Library operations used by the service *)

\* new Socket(url, { params: { uid } }) followed by socket.connect()
NewSocket(uid) == [uid |-> uid, status |-> "open"]

\* socket.channel(channelName, {}) followed by channel.join()
NewChannel(sock, channelName) ==
    [name |-> channelName, sock |-> sock, join |-> "pending"]

\* socket.disconnect(): idempotent, only a live transport is torn down
disconnect(status) == IF status = "open" THEN "disconnected" ELSE status

\* channel.push('chat', payload) wrapped in new Promise(...)
NewPush(chan, payload) ==
    [chan |-> chan, event |-> "chat", payload |-> payload,
     promise |-> Pending]

\* a settlement that overwrites an earlier one
SettleOverwriting(promise, state, value) == [state |-> state, value |-> value]

\* resolve / reject of a Promise: only a pending promise is settled
Settle(promise, state, value) ==
    IF promise.state = "pending"
    THEN [state |-> state, value |-> value]
    ELSE promise

----------------------------------------------------------------------------
(* Public operations *)

\* a send without its guard
SendUnguarded == TRUE

\* send: `if (!channel) return console.error(...)`
SendHasChannel == channel # 0

send(to, data) ==
    LET payload == [to |-> to, message |-> data] IN
    /\ IF ~SendHasChannel
       THEN /\ pushes' = pushes
            /\ lastRet' = Undefined
            /\ emitted' = { Note("console.error", "connection.errors.send.notConnected") }
       ELSE /\ Created < MaxObjects
            /\ pushes' = Append(pushes, NewPush(channel, payload))
            /\ lastRet' = PromiseOf(Len(pushes) + 1)
            /\ emitted' = {}
    /\ lastOp' = "send"
    /\ UNCHANGED <<identity, socket, channel, connected, sockets, channels,
                   awaiting, pingAllCount, closedSince>>

\* a subscribeToChannel without its `if (!socket)` guard
subscribeToChannelUnguarded(sock, channelName) ==
    /\ Created < MaxObjects
    /\ channels' = Append(channels, NewChannel(sock, channelName))
    /\ channel' = Len(channels) + 1

\* a subscribeToChannel that keeps using the first socket it ever saw
subscribeToChannelOnFirstSocket(sock, channelName) ==
    IF sock = 0
    THEN /\ channels' = channels
         /\ channel' = channel
    ELSE /\ Created < MaxObjects
         /\ channels' = Append(channels, NewChannel(1, channelName))
         /\ channel' = Len(channels) + 1

\* subscribeToChannel: what it does to channels / channel when this.socket = sock
subscribeToChannel(sock, channelName) ==
    IF sock = 0
    THEN /\ channels' = channels
         /\ channel' = channel
    ELSE /\ Created < MaxObjects
         /\ channels' = Append(channels, NewChannel(sock, channelName))
         /\ channel' = Len(channels) + 1

subscribeNotes(sock) ==
    IF sock = 0
    THEN { Note("toast.error", "connection.errors.subscribe.notConnected") }
    ELSE {}

\* a caller invokes subscribeToChannel(channelName)
SubscribeCall(channelName) ==
    /\ subscribeToChannel(socket, channelName)
    /\ emitted' = subscribeNotes(socket)
    /\ lastOp' = "subscribeToChannel"
    /\ lastRet' = NoReturn
    /\ UNCHANGED <<identity, socket, connected, sockets, pushes,
                   awaiting, pingAllCount, closedSince>>

\* connect(), up to its suspension at `await this.canConnect()`
ConnectCall(c) ==
    /\ awaiting[c] = Idle
    /\ awaiting' = [awaiting EXCEPT ![c] = Awaiting(canConnect, connected)]
    /\ closedSince' = FALSE
    /\ lastOp' = "connect.call"
    /\ lastRet' = NoReturn
    /\ emitted' = {}
    /\ UNCHANGED <<identity, socket, channel, connected, sockets, channels,
                   pushes, pingAllCount>>

\* a guard that forgets `this.connected`
ConnectProceedsWhenConnected(can) == can

\* `if (!canConnect || this.connected) return;`
ConnectProceeds(can) == can /\ ~connected

\* a connect() that pings twice
PingAllTwice == pingAllCount' = pingAllCount + 2

\* this.dispatcher.pingAll()
PingAll == pingAllCount' = pingAllCount + 1

\* the call was made while disconnected and another call has constructed a
\* socket while it was suspended
LostRace(c) == awaiting[c].overtaken /\ ~awaiting[c].connectedAtCall

\* the label of a connect() that returns at its guard
NoopLabel(c) == IF LostRace(c) THEN "connect.noop.overtaken" ELSE "connect.noop"

\* a connect() that reads `this.connected` before the await, not after it
ConnectResumeGuardAtCall(c) ==
    /\ awaiting[c].pc = "await"
    /\ IF ~(awaiting[c].can /\ ~awaiting[c].connectedAtCall)
       THEN /\ awaiting' = Resumed(c, FALSE)
            /\ lastOp' = NoopLabel(c)
            /\ emitted' = {}
            /\ UNCHANGED <<socket, channel, connected, sockets, channels, pingAllCount>>
       ELSE LET publicKey == userChannelId
                s == Len(sockets) + 1
            IN  /\ Created + 2 <= MaxObjects
                /\ awaiting' = Resumed(c, TRUE)
                /\ sockets' = Append(sockets, NewSocket(publicKey))
                /\ socket' = s
                /\ subscribeToChannel(s, UserChannelName(publicKey))
                /\ connected' = TRUE
                /\ PingAll
                /\ emitted' = { Note("toast.info", "connection.connecting") }
                                \cup subscribeNotes(s)
                /\ lastOp' = "connect"
    /\ lastRet' = NoReturn
    /\ UNCHANGED <<identity, pushes, closedSince>>

\* connect(), from its resumption to its end
ConnectResume(c) ==
    /\ awaiting[c].pc = "await"
    /\ IF ~ConnectProceeds(awaiting[c].can)
       THEN /\ awaiting' = Resumed(c, FALSE)
            /\ lastOp' = NoopLabel(c)
            /\ emitted' = {}
            /\ UNCHANGED <<socket, channel, connected, sockets, channels, pingAllCount>>
       ELSE LET publicKey == userChannelId
                s == Len(sockets) + 1
            IN  /\ Created + 2 <= MaxObjects
                /\ awaiting' = Resumed(c, TRUE)
                /\ sockets' = Append(sockets, NewSocket(publicKey))
                /\ socket' = s
                /\ subscribeToChannel(s, UserChannelName(publicKey))
                /\ connected' = TRUE
                /\ PingAll
                /\ emitted' = { Note("toast.info", "connection.connecting") }
                                \cup subscribeNotes(s)
                /\ lastOp' = "connect"
    /\ lastRet' = NoReturn
    /\ UNCHANGED <<identity, pushes, closedSince>>

----------------------------------------------------------------------------
(* Callbacks *)

\* a socket error handler that also clears `connected`
onSocketErrorClearing(s) ==
    /\ s \in 1..Len(sockets)
    /\ SocketOpen(s)
    /\ emitted' = { Note("toast.error", "connection.status.socket.error") }
    /\ connected' = FALSE
    /\ lastOp' = "onSocketError"
    /\ lastRet' = NoReturn
    /\ UNCHANGED <<identity, socket, channel, sockets, channels, pushes,
                   awaiting, pingAllCount, closedSince>>

\* socket.onError(this.onSocketError)
onSocketError(s) ==
    /\ s \in 1..Len(sockets)
    /\ SocketOpen(s)
    /\ emitted' = { Note("toast.error", "connection.status.socket.error") }
    /\ lastOp' = "onSocketError"
    /\ lastRet' = NoReturn
    /\ UNCHANGED <<identity, socket, channel, connected, sockets, channels, pushes,
                   awaiting, pingAllCount, closedSince>>

\* a socket close handler that forgets `this.set('connected', false)`
onSocketCloseKeepingConnected(s) ==
    /\ s \in 1..Len(sockets)
    /\ sockets[s].status \in {"open", "disconnected"}
    /\ sockets' = [sockets EXCEPT ![s].status =
                     IF @ = "open" THEN "closed" ELSE "disconnected.notified"]
    /\ emitted' = { Note("toast.info", "connection.status.socket.close") }
    /\ lastOp' = "onSocketClose"
    /\ lastRet' = NoReturn
    /\ UNCHANGED <<identity, socket, channel, connected, channels, pushes,
                   awaiting, pingAllCount, closedSince>>

\* socket.onClose(this.onSocketClose): the transport closed, or the close
\* that follows a disconnect() is reported (the library may or may not do
\* so).  A socket that reported its close is ended: the library reopening it
\* on its own is not part of this model.
onSocketClose(s) ==
    /\ s \in 1..Len(sockets)
    /\ sockets[s].status \in {"open", "disconnected"}
    /\ sockets' = [sockets EXCEPT ![s].status =
                     IF @ = "open" THEN "closed" ELSE "disconnected.notified"]
    /\ emitted' = { Note("toast.info", "connection.status.socket.close") }
    /\ connected' = FALSE
    /\ lastOp' = "onSocketClose"
    /\ lastRet' = NoReturn
    /\ UNCHANGED <<identity, socket, channel, channels, pushes,
                   awaiting, pingAllCount, closedSince>>

\* `if (this.socket) this.socket.disconnect();`
DisconnectSocket ==
    IF socket # 0
    THEN sockets' = [sockets EXCEPT ![socket].status = disconnect(@)]
    ELSE sockets' = sockets

\* channel.onError(this.onChannelError)
onChannelError(c) ==
    /\ c \in 1..Len(channels)
    /\ SocketOpen(channels[c].sock)
    /\ emitted' = { Note("console.log", "channel errored") }
    /\ DisconnectSocket
    /\ lastOp' = "onChannelError"
    /\ lastRet' = NoReturn
    /\ UNCHANGED <<identity, socket, channel, connected, channels, pushes,
                   awaiting, pingAllCount, closedSince>>

\* channel.onClose(this.onChannelClose)
onChannelClose(c) ==
    /\ c \in 1..Len(channels)
    /\ SocketOpen(channels[c].sock)
    /\ emitted' = { Note("console.log", "channel closed") }
    /\ DisconnectSocket
    /\ closedSince' = TRUE
    /\ lastOp' = "onChannelClose"
    /\ lastRet' = NoReturn
    /\ UNCHANGED <<identity, socket, channel, connected, channels, pushes,
                   awaiting, pingAllCount>>

JoinPending(c) == c \in 1..Len(channels) /\ channels[c].join = "pending"

\* .receive('ok', this.handleConnected)
handleConnected(c) ==
    /\ JoinPending(c)
    /\ SocketOpen(channels[c].sock)
    /\ channels' = [channels EXCEPT ![c].join = "ok"]
    /\ emitted' = { Note("toast.success", "connection.connected") }
    /\ lastOp' = "handleConnected"
    /\ lastRet' = NoReturn
    /\ UNCHANGED <<identity, socket, channel, connected, sockets, pushes,
                   awaiting, pingAllCount, closedSince>>

\* a join error handler that gives the session up
handleErrorTearingDown(c) ==
    /\ JoinPending(c)
    /\ SocketOpen(channels[c].sock)
    /\ channels' = [channels EXCEPT ![c].join = "error"]
    /\ emitted' = { Note("console.error", "join error") }
    /\ DisconnectSocket
    /\ connected' = FALSE
    /\ lastOp' = "handleError"
    /\ lastRet' = NoReturn
    /\ UNCHANGED <<identity, socket, channel, pushes,
                   awaiting, pingAllCount, closedSince>>

\* .receive('error', this.handleError)
handleError(c) ==
    /\ JoinPending(c)
    /\ SocketOpen(channels[c].sock)
    /\ channels' = [channels EXCEPT ![c].join = "error"]
    /\ emitted' = { Note("console.error", "join error") }
    /\ lastOp' = "handleError"
    /\ lastRet' = NoReturn
    /\ UNCHANGED <<identity, socket, channel, connected, sockets, pushes,
                   awaiting, pingAllCount, closedSince>>

\* .receive("timeout", () => console.info(...))
joinTimeout(c) ==
    /\ JoinPending(c)
    /\ channels' = [channels EXCEPT ![c].join = "timeout"]
    /\ emitted' = { Note("console.info", "connection.status.timeout") }
    /\ lastOp' = "joinTimeout"
    /\ lastRet' = NoReturn
    /\ UNCHANGED <<identity, socket, channel, connected, sockets, pushes,
                   awaiting, pingAllCount, closedSince>>

\* a chat handler that does not pass the message on
handleMessageDropping(c, data) ==
    /\ c \in 1..Len(channels)
    /\ SocketOpen(channels[c].sock)
    /\ channels[c].join = "ok"
    /\ emitted' = {}
    /\ lastOp' = "handleMessage"
    /\ lastRet' = NoReturn
    /\ UNCHANGED <<identity, socket, channel, connected, sockets, channels, pushes,
                   awaiting, pingAllCount, closedSince>>

\* channel.on('chat', this.handleMessage)
handleMessage(c, data) ==
    /\ c \in 1..Len(channels)
    /\ SocketOpen(channels[c].sock)
    /\ channels[c].join = "ok"
    /\ emitted' = { Note("processor.receive", data) }
    /\ lastOp' = "handleMessage"
    /\ lastRet' = NoReturn
    /\ UNCHANGED <<identity, socket, channel, connected, sockets, channels, pushes,
                   awaiting, pingAllCount, closedSince>>

\* the relay can answer a push only over a joined channel of a live socket
PushAnswerable(p) ==
    /\ pushes[p].chan # 0
    /\ channels[pushes[p].chan].join = "ok"
    /\ SocketOpen(channels[pushes[p].chan].sock)

\* a push callback that treats a failed push as a lost connection
PushEventTearingDown(p, state, value, op) ==
    /\ pushes' = [pushes EXCEPT ![p].promise = Settle(@, state, value)]
    /\ connected' = (connected /\ state = "fulfilled")
    /\ emitted' = {}
    /\ lastOp' = op
    /\ lastRet' = NoReturn
    /\ UNCHANGED <<identity, socket, channel, sockets, channels,
                   awaiting, pingAllCount, closedSince>>

\* push callbacks that share one resolve / reject among all pushes in flight
PushEventSettlingAll(p, state, value, op) ==
    /\ pushes' = [q \in DOMAIN pushes |->
                    [pushes[q] EXCEPT !.promise = Settle(@, state, value)]]
    /\ emitted' = {}
    /\ lastOp' = op
    /\ lastRet' = NoReturn
    /\ UNCHANGED <<identity, socket, channel, connected, sockets, channels,
                   awaiting, pingAllCount, closedSince>>

\* an event of push p runs the callback registered for it
PushEvent(p, state, value, op) ==
    /\ pushes' = [pushes EXCEPT ![p].promise = Settle(@, state, value)]
    /\ emitted' = {}
    /\ lastOp' = op
    /\ lastRet' = NoReturn
    /\ UNCHANGED <<identity, socket, channel, connected, sockets, channels,
                   awaiting, pingAllCount, closedSince>>

\* .receive("ok", resolve)
pushOk(p) ==
    /\ p \in 1..Len(pushes)
    /\ PushAnswerable(p)
    /\ PushEvent(p, "fulfilled", OkReply, "push.ok")

\* .receive("error", reject)
pushError(p) ==
    /\ p \in 1..Len(pushes)
    /\ PushAnswerable(p)
    /\ PushEvent(p, "rejected", ErrorReply, "push.error")

\* .receive("timeout", () => reject({ reason: ... }))
pushTimeout(p) ==
    /\ p \in 1..Len(pushes)
    /\ PushEvent(p, "rejected", TimeoutReason, "push.timeout")

----------------------------------------------------------------------------
Next ==
    \/ \E to \in Peers, data \in Messages : send(to, data)
    \/ \E n \in RoomChannelNames : SubscribeCall(n)
    \/ \E c \in Callers : ConnectCall(c)
    \/ \E c \in Callers : ConnectResume(c)
    \/ \E s \in DOMAIN sockets : onSocketError(s)
    \/ \E s \in DOMAIN sockets : onSocketClose(s)
    \/ \E c \in DOMAIN channels : onChannelError(c)
    \/ \E c \in DOMAIN channels : onChannelClose(c)
    \/ \E c \in DOMAIN channels : handleConnected(c)
    \/ \E c \in DOMAIN channels : handleError(c)
    \/ \E c \in DOMAIN channels : joinTimeout(c)
    \/ \E c \in DOMAIN channels, data \in Inbound : handleMessage(c, data)
    \/ \E p \in DOMAIN pushes : pushOk(p)
    \/ \E p \in DOMAIN pushes : pushError(p)
    \/ \E p \in DOMAIN pushes : pushTimeout(p)

Spec == Init /\ [][Next]_vars

----------------------------------------------------------------------------
(* Properties *)

NotConnectedLine == Note("console.error", "connection.errors.send.notConnected")

SendWithoutChannel == lastOp = "send" /\ channel = 0

\* C1, as stated: a send() made while the channel field is unset issues no
\* push and returns a rejected future that signals 'not connected'.
C1_SendRejectsWhenNoChannel ==
    SendWithoutChannel => pushes = <<>> /\ lastRet.kind = "rejected"

\* C1, amended: a send() made while the channel field is unset issues no
\* push, writes the 'not connected' line to the console and returns
\* undefined (no future at all).
C1_SendNoChannelIsLoggedNoop ==
    SendWithoutChannel =>
        /\ pushes = <<>>
        /\ lastRet = Undefined
        /\ emitted = { NotConnectedLine }

C1_Witness == SendWithoutChannel /\ identity.exists

Outcomes ==
    { [state |-> "fulfilled", value |-> OkReply],
      [state |-> "rejected", value |-> ErrorReply],
      [state |-> "rejected", value |-> TimeoutReason] }

OutcomeOf(op) ==
    CASE op = "push.ok" -> [state |-> "fulfilled", value |-> OkReply]
      [] op = "push.error" -> [state |-> "rejected", value |-> ErrorReply]
      [] op = "push.timeout" -> [state |-> "rejected", value |-> TimeoutReason]
      [] OTHER -> Pending

\* C2: the future of every push is pending or holds one of the three
\* outcomes (ok reply, error reply, timeout); it leaves the pending state only
\* by an event of the push, to that event's outcome; and once settled no later
\* event changes it.
C2_PushSettlesOnce ==
    /\ [](\A p \in DOMAIN pushes : pushes[p].promise \in Outcomes \cup { Pending })
    /\ [][\A p \in DOMAIN pushes :
            /\ pushes[p].promise # Pending => pushes'[p].promise = pushes[p].promise
            /\ (pushes[p].promise = Pending /\ pushes'[p].promise # Pending)
                   => pushes'[p].promise = OutcomeOf(lastOp')
         ]_vars

\* a timeout event met a push that an ok reply had already settled
C2_Witness ==
    /\ lastOp = "push.timeout"
    /\ Len(pushes) = 1
    /\ pushes[1].promise = [state |-> "fulfilled", value |-> OkReply]

ChannelFault == lastOp \in { "onChannelError", "onChannelClose" }

\* the identity is complete: it exists and has a public key
UsableIdentity == identity.exists /\ identity.publicKey # NoKey

\* C3: after a channel error or channel close event, connected is false and
\* the socket of the service is disconnected (stated for a usable identity).
C3_ChannelFaultDisconnects ==
    (UsableIdentity /\ ChannelFault) =>
        ~connected /\ socket # 0 /\ ~SocketOpen(socket)

\* C4: connected implies a live socket and a channel whose join was confirmed
\* (stated for a usable identity).
C4_ConnectedImpliesJoined ==
    (UsableIdentity /\ connected) =>
        /\ SocketOpen(socket)
        /\ \E c \in DOMAIN channels : channels[c].join = "ok"

\* C5: after a channel close event, and until connect() is called again,
\* every send() fails with 'not connected' and issues no push (stated for a
\* usable identity).
C5_SendFailsAfterChannelClose ==
    (UsableIdentity /\ closedSince /\ lastOp = "send") =>
        lastRet.kind # "promise" /\ NotConnectedLine \in emitted

\* C6, as stated: a connect() invoked while connected is true constructs no
\* socket, creates no channel, issues no join and does not call pingAll.
C6_ConnectInvokedWhileConnectedIsNoop ==
    [][\A c \in Callers :
          (awaiting[c].connectedAtCall /\ ConnectResume(c)) =>
              UNCHANGED <<socket, channel, connected, sockets, channels,
                          pushes, pingAllCount>>
      ]_vars

\* C6, amended: a connect() that finds connected true when it resumes from
\* `await this.canConnect()` constructs no socket, creates no channel, issues
\* no join and does not call pingAll.
C6_ConnectWhileConnectedIsNoop ==
    [][\A c \in Callers :
          (connected /\ ConnectResume(c)) =>
              UNCHANGED <<socket, channel, connected, sockets, channels,
                          pushes, pingAllCount>>
      ]_vars

C6_Witness == lastOp = "connect.noop" /\ connected /\ identity.exists /\ Len(sockets) = 1

\* C7: without a public key, connect() creates no socket, joins no channel
\* (none named 'user:') and leaves connected false.
C7_NoKeyNoSocket ==
    identity.publicKey = NoKey =>
        /\ sockets = <<>>
        /\ ~connected
        /\ \A c \in DOMAIN channels : channels[c].name # "user:"

LiveSockets == { s \in DOMAIN sockets : sockets[s].status = "open" }

\* C8: at most one socket is live; a socket is constructed only when every
\* earlier one was disconnected or has closed.
C8_AtMostOneLiveSocket == Cardinality(LiveSockets) <= 1

C8_Witness == Len(sockets) = 2 /\ LiveSockets = { 2 }

Faults ==
    { "onSocketError", "onSocketClose", "onChannelError", "onChannelClose",
      "handleError", "joinTimeout" }

\* C9: every fault leaves the service disconnected (connected = false), so
\* that a following connect() opens a session again (stated for a usable
\* identity).
C9_FaultsLeadToDisconnected == (UsableIdentity /\ lastOp \in Faults) => ~connected

\* C10: every push of send() is a 'chat' push with payload {to, message} on
\* the primary channel user:<hex public key> (stated for a usable identity).
C10_SendOnPrimaryChannel ==
    UsableIdentity => \A p \in DOMAIN pushes :
        /\ pushes[p].event = "chat"
        /\ pushes[p].payload \in [to : Peers, message : Messages]
        /\ channels[pushes[p].chan].name = UserChannelName(userChannelId)

\* no socket is constructed or (re)opened and no channel is created or joined
NothingOpened ==
    /\ Len(sockets') = Len(sockets)
    /\ \A s \in DOMAIN sockets : sockets'[s].status = "open" => sockets[s].status = "open"
    /\ channels' = channels

\* C11: a socket error event raises the error toast and nothing else:
\* connected, the socket (not disconnected) and the channel stay as they were.
C11_SocketErrorOnlyNotifies ==
    [][lastOp' = "onSocketError" =>
          /\ emitted' = { Note("toast.error", "connection.status.socket.error") }
          /\ UNCHANGED <<connected, socket, channel, sockets, channels, pushes>>
      ]_vars

C11_Witness == lastOp = "onSocketError" /\ connected /\ SocketOpen(socket)

\* C12: a socket close event sets connected to false and raises the info
\* toast; it constructs no socket, opens no transport, issues no join, and
\* leaves the socket and channel fields as they were.
C12_SocketCloseClearsConnectedOnly ==
    [][lastOp' = "onSocketClose" =>
          /\ connected' = FALSE
          /\ emitted' = { Note("toast.info", "connection.status.socket.close") }
          /\ NothingOpened
          /\ UNCHANGED <<socket, channel, pushes, awaiting>>
      ]_vars

C12_Witness ==
    /\ lastOp = "onSocketClose"
    /\ socket # 0 /\ sockets[socket].status = "closed"
    /\ channel # 0
    /\ ~connected

\* the pushes whose future changes in a step
Resettled == { p \in DOMAIN pushes : pushes'[p].promise # pushes[p].promise }

\* C13: a push error or push timeout changes at most the future of one push
\* and nothing else: connected, the socket, the channel and the other
\* futures stay as they were, and nothing is torn down.
C13_PushFailureIsLocal ==
    [][lastOp' \in { "push.error", "push.timeout" } =>
          /\ UNCHANGED <<connected, socket, channel, sockets, channels>>
          /\ Len(pushes') = Len(pushes)
          /\ Cardinality(Resettled) <= 1
          /\ emitted' = {}
      ]_vars

\* a push timed out while the service stayed connected on a live socket and
\* another push stayed in flight
C13_Witness ==
    /\ lastOp = "push.timeout"
    /\ connected /\ SocketOpen(socket)
    /\ Len(pushes) = 2
    /\ pushes[1].promise = [state |-> "rejected", value |-> TimeoutReason]
    /\ pushes[2].promise = Pending

\* C14: with several pushes in flight, an ok, error or timeout event of one
\* push leaves the future of every other push as it was.
C14_PushesSettleIndependently ==
    [][\A q \in DOMAIN pushes :
          (pushOk(q) \/ pushError(q) \/ pushTimeout(q)) =>
              \A p \in DOMAIN pushes \ { q } : pushes'[p] = pushes[p]
      ]_vars

\* the reply to the second push came first, the first push was then refused
C14_Witness ==
    /\ Len(pushes) = 2
    /\ pushes[2].promise = [state |-> "fulfilled", value |-> OkReply]
    /\ pushes[1].promise = [state |-> "rejected", value |-> ErrorReply]
    /\ lastOp = "push.error"

\* C15: pingAll() is called once by every connect() that passes its guard, in
\* the step that issues the primary join and sets connected; no other step
\* (a connect() that returns at its guard, any callback) calls it.
C15_PingAllOncePerConnect ==
    [][IF lastOp' = "connect"
       THEN /\ pingAllCount' = pingAllCount + 1
            /\ connected'
            /\ Len(channels') = Len(channels) + 1
            /\ channel' = Len(channels')
            /\ channels'[channel'].join = "pending"
       ELSE pingAllCount' = pingAllCount
      ]_vars

\* two connect() calls got past the guard, one before and one after a close
C15_Witness == lastOp = "connect" /\ pingAllCount = 2 /\ Len(sockets) = 2

SubscribeNotConnectedToast ==
    Note("toast.error", "connection.errors.subscribe.notConnected")

\* C16: subscribeToChannel called while the socket field is unset raises the
\* error toast and does nothing else: no channel, no join, and connected,
\* socket and channel stay as they were.
C16_SubscribeWithoutSocketOnlyNotifies ==
    [][(lastOp' = "subscribeToChannel" /\ socket = 0) =>
          /\ emitted' = { SubscribeNotConnectedToast }
          /\ UNCHANGED <<connected, socket, channel, sockets, channels, pushes>>
      ]_vars

C16_Witness ==
    /\ lastOp = "subscribeToChannel"
    /\ socket = 0
    /\ emitted = { SubscribeNotConnectedToast }
    /\ identity.exists

JoinOutcomes == { "handleConnected", "handleError", "joinTimeout" }

JoinNote(op) ==
    CASE op = "handleConnected" -> Note("toast.success", "connection.connected")
      [] op = "handleError" -> Note("console.error", "join error")
      [] op = "joinTimeout" -> Note("console.info", "connection.status.timeout")

\* no channel is created, re-joined or renamed, and none changes its socket
NoJoinIssued ==
    /\ Len(channels') = Len(channels)
    /\ \A c \in DOMAIN channels :
          /\ channels'[c].name = channels[c].name
          /\ channels'[c].sock = channels[c].sock
          /\ channels'[c].join = "pending" => channels[c].join = "pending"

\* C17: connected is true as soon as connect() has issued the primary join,
\* with the join still unanswered; a join ok, join error or join timeout then
\* only emits its one notification: it leaves connected, the socket and the
\* channel as they were, disconnects nothing and issues no join.
C17_ConnectedNotGatedOnJoin ==
    [][/\ lastOp' = "connect" =>
              connected' /\ channels'[channel'].join = "pending"
       /\ lastOp' \in JoinOutcomes =>
              /\ emitted' = { JoinNote(lastOp') }
              /\ UNCHANGED <<connected, socket, channel, sockets, pushes>>
              /\ NoJoinIssued
      ]_vars

\* the join was refused and the service still counts as connected
C17_Witness ==
    /\ lastOp = "handleError"
    /\ connected /\ SocketOpen(socket)
    /\ channels[channel].join = "error"

\* C18: an inbound 'chat' event is handed to processor.receive once, with
\* the payload it came with; nothing is pushed and connected, the socket
\* and the channel stay as they were.
C18_ChatIsForwardedVerbatim ==
    [][/\ \A c \in DOMAIN channels, d \in Inbound :
              handleMessage(c, d) => emitted' = { Note("processor.receive", d) }
       /\ lastOp' = "handleMessage" =>
              /\ \E d \in Inbound : emitted' = { Note("processor.receive", d) }
              /\ UNCHANGED <<connected, socket, channel, sockets, channels, pushes>>
      ]_vars

C18_Witness ==
    /\ lastOp = "handleMessage"
    /\ emitted = { Note("processor.receive", "bye") }
    /\ connected

ReportedClosed(s) == sockets[s].status \in { "closed", "disconnected.notified" }

\* C19: of the overlapping connect() calls made while disconnected, one
\* constructs a socket and issues a join; a call that another one has
\* overtaken returns without effect.
C19_OverlappingConnectsConstructOnce ==
    [][\A c \in Callers :
          (UsableIdentity /\ LostRace(c) /\ ConnectResume(c)) =>
              UNCHANGED <<socket, channel, connected, sockets, channels,
                          pushes, pingAllCount>>
      ]_vars

\* C19, amended: a connect() call made while disconnected that another call
\* has overtaken returns without effect if it finds connected true when it
\* resumes; it constructs a socket of its own only when connected was
\* cleared in between, that is when the overtaking call's socket has
\* reported its close.
C19_OvertakenConnectIsNoopWhileConnected ==
    [][\A c \in Callers :
          (LostRace(c) /\ ConnectResume(c)) =>
              IF connected
              THEN /\ lastOp' = "connect.noop.overtaken"
                   /\ UNCHANGED <<socket, channel, connected, sockets, channels,
                                  pushes, pingAllCount>>
              ELSE /\ ReportedClosed(socket)
                   /\ lastOp' = "connect"
      ]_vars

\* two calls overlapped while disconnected; one built the session, the
\* other has returned at its guard
C19_Witness ==
    /\ lastOp = "connect.noop.overtaken"
    /\ connected
    /\ Len(sockets) = 1 /\ Len(channels) = 1
    /\ pingAllCount = 1
    /\ \A c \in Callers : awaiting[c] = Idle

\* C20: whenever the channel field is set, the socket field is set and the
\* stored channel was created from the stored socket, never from one that
\* connect() has replaced.
C20_ChannelBelongsToSocket ==
    channel # 0 => /\ socket # 0
                   /\ channels[channel].sock = socket

\* connect() has replaced a session and the channel field followed
C20_Witness ==
    /\ Len(sockets) = 2
    /\ socket = 2
    /\ channel # 0
    /\ channels[channel].sock = 2
    /\ \E c \in DOMAIN channels : channels[c].sock = 1

====
